---- MODULE Spec2Model ----
(***************************************************************************)
(* Model of app.py, the Aadhaar demographic dashboard: a Streamlit script  *)
(* that is run from top to bottom once when a session opens and once more  *)
(* after every widget interaction.  The state is the CSV file, the         *)
(* st.cache_data memo of load_data, the widget state of the session and    *)
(* what the last run of the script computed and displayed.                 *)
(*                                                                         *)
(* State and district names are strings in the program; they are modelled  *)
(* as positive integers standing for the names in lexicographic order.     *)
(* A raw date is the day and month fields of a "dd/mm/2025" cell; a parsed *)
(* date is its day number within 2025 (1 = 1 Jan), and date arithmetic is  *)
(* done on day numbers.  Every record carries a state, a district and two  *)
(* counts (spec section 3); only the date field may be unparseable.        *)
(***************************************************************************)
EXTENDS Integers, Sequences, FiniteSets, TLC

VARIABLES
    csv,                \* the rows of aadhar_demographic2.csv
    cache,              \* st.cache_data memo of load_data()
    session,            \* "closed" before the first run, "open" after
    w_state,            \* widget state of the "Select State" selectbox
    w_district,         \* widget state of the "Select District" selectbox
    df,                 \* the dataset returned by load_data() in the last run
    state_list,
    district_list,
    district_group,
    future_dates,
    selected_state,
    selected_district,
    forecast_level,
    forecast_days,
    state_df,
    district_df,
    total_5_17,
    total_18_plus,
    total_all,
    fig_district,       \* the rows plotted by the district ranking bar chart
    d_5_17,
    d_18_plus,
    time_df,
    ts_df,
    rolling_avg,
    forecast_df,
    info,               \* the integer shown by the st.info summary
    exception           \* how the last run ended

vars == << csv, cache, session, w_state, w_district, df, state_list,
           district_list, district_group, future_dates, selected_state,
           selected_district, forecast_level, forecast_days, state_df,
           district_df, total_5_17, total_18_plus, total_all, fig_district,
           d_5_17, d_18_plus, time_df, ts_df, rolling_avg, forecast_df, info,
           exception >>

----------------------------------------------------------------------------
(* Bounds of the model *)

\* longest CSV file enumerated row by row from RowPalette
MaxRows == 2
\* most rows of the generated time-series files
MaxDates == 8

----------------------------------------------------------------------------
(* Program constants and sentinel values *)

NaT == 0                 \* pd.NaT, the result of coercing an unparseable date
None == 0                \* what st.selectbox returns for an empty option list
window == 7
min_value == 3
max_value == 30
value == 7               \* the slider's default
NaN == [isnan |-> TRUE, num |-> 0, den |-> 1]

\* the memo before load_data() has run, and a widget the session has not rendered
NoCache == [loaded |-> FALSE, data |-> << >>]
NoWidget == [known |-> FALSE, options |-> << >>, value |-> None]

----------------------------------------------------------------------------
(* Dates: pd.to_datetime(dayfirst=True, errors='coerce') and Timedelta *)

DaysIn(m) == CASE m \in {4, 6, 9, 11} -> 30
               [] m = 2 -> 28
               [] OTHER -> 31

RECURSIVE DaysBefore(_)
DaysBefore(m) == IF m <= 1 THEN 0 ELSE DaysBefore(m - 1) + DaysIn(m - 1)

\* day first: the first field is the day, the second the month
to_datetime(raw) ==
    IF raw.mm \in 1..12 /\ raw.dd >= 1 /\ raw.dd <= DaysIn(raw.mm)
    THEN DaysBefore(raw.mm) + raw.dd
    ELSE NaT

----------------------------------------------------------------------------
(* pandas operations on a frame, a sequence of records *)

\* Filter with the comparison mistyped: df[df[col] <= v]
Filter_le(frame, col, v) == SelectSeq(frame, LAMBDA r : r[col] <= v)

\* df[df[col] == v]: the rows whose column equals v, in their order
Filter(frame, col, v) == SelectSeq(frame, LAMBDA r : r[col] = v)

\* the sum of a column over the first n rows
RECURSIVE SumTo(_, _, _)
SumTo(frame, col, n) ==
    IF n = 0 THEN 0 ELSE frame[n][col] + SumTo(frame, col, n - 1)

\* ColumnSum that leaves the last row out
ColumnSum_short(frame, col) ==
    IF frame = << >> THEN 0 ELSE SumTo(frame, col, Len(frame) - 1)

\* frame[col].sum()
ColumnSum(frame, col) == SumTo(frame, col, Len(frame))

\* sorted(S): the k-th entry is the value with k - 1 smaller values in S
Ascending(S) ==
    [k \in 1..Cardinality(S) |->
        CHOOSE x \in S : Cardinality({y \in S : y < x}) = k - 1]

\* sorted(frame[col].unique())
sorted_unique(frame, col) == Ascending({frame[i][col] : i \in 1..Len(frame)})

\* GroupRow that takes the first row of the group, .first() for .sum()
GroupRow_first(frame, col, k) ==
    [key |-> k,
     demo_age_5_17 |-> Filter(frame, col, k)[1].demo_age_5_17,
     demo_age_17_ |-> Filter(frame, col, k)[1].demo_age_17_]

\* the groupby row of one key
GroupRow(frame, col, k) ==
    [key |-> k,
     demo_age_5_17 |-> ColumnSum(Filter(frame, col, k), "demo_age_5_17"),
     demo_age_17_ |-> ColumnSum(Filter(frame, col, k), "demo_age_17_")]

GroupRows(frame, col, keys) ==
    [i \in 1..Len(keys) |-> GroupRow(frame, col, keys[i])]

\* frame.groupby(col)[["demo_age_5_17", "demo_age_17_"]].sum().reset_index():
\* one row per distinct key, keys ascending, each count column summed
groupby_sum(frame, col) == GroupRows(frame, col, sorted_unique(frame, col))

\* group["Total"] = group["demo_age_5_17"] + group["demo_age_17_"]
with_total(group) ==
    [i \in 1..Len(group) |->
        [key |-> group[i].key,
         demo_age_5_17 |-> group[i].demo_age_5_17,
         demo_age_17_ |-> group[i].demo_age_17_,
         total |-> group[i].demo_age_5_17 + group[i].demo_age_17_]]

\* whether row a goes before row b when ordering by col
Precedes(a, b, col, ascending) ==
    IF ascending THEN a[col] < b[col] ELSE a[col] > b[col]

\* the place of row i after sorting: behind the rows that precede it and the
\* earlier rows of equal value
Place(frame, i, col, ascending) ==
    1 + Cardinality({j \in 1..Len(frame) :
            \/ Precedes(frame[j], frame[i], col, ascending)
            \/ (j < i /\ frame[j][col] = frame[i][col])})

\* sort_values forgotten: the frame as it is
sort_values_none(frame, col, ascending) == frame

\* frame.sort_values(col, ascending=...): rows of equal value keep their order
sort_values(frame, col, ascending) ==
    [k \in 1..Len(frame) |->
        frame[CHOOSE i \in 1..Len(frame) : Place(frame, i, col, ascending) = k]]

----------------------------------------------------------------------------
(* The forecaster *)

\* Trailing that takes the first `window` rows, head for tail
Trailing_head(frame) == SubSeq(frame, 1, window)

\* the last `window` rows of a frame
Trailing(frame) == SubSeq(frame, Len(frame) - window + 1, Len(frame))

\* rolling_mean_last with min_periods=1: the mean of the rows there are
rolling_mean_partial(frame) ==
    IF Len(frame) < window
    THEN [isnan |-> FALSE, num |-> ColumnSum(frame, "total"), den |-> Len(frame)]
    ELSE [isnan |-> FALSE, num |-> ColumnSum(Trailing(frame), "total"), den |-> window]

\* frame["total"].rolling(window=window).mean().iloc[-1] of a non-empty frame:
\* NaN until the window is full (min_periods defaults to the window); the mean
\* is kept as the exact fraction num/den
rolling_mean_last(frame) ==
    IF Len(frame) < window THEN NaN
    ELSE [isnan |-> FALSE, num |-> ColumnSum(Trailing(frame), "total"), den |-> window]

\* frame["date"].max() of a non-empty frame
date_max(frame) ==
    CHOOSE m \in {frame[i].key : i \in 1..Len(frame)} :
        \A i \in 1..Len(frame) : frame[i].key <= m

\* date_range that leaves the start day out
date_range_late(start, periods) == [i \in 1..periods |-> start + i]

\* pd.date_range(start=start, periods=periods), daily
date_range(start, periods) == [i \in 1..periods |-> start + (i - 1)]

\* pd.DataFrame({"date": dates, "Predicted Aadhaar Activity": [avg] * days})
forecast_frame(dates, avg, days) ==
    [i \in 1..days |-> [date |-> dates[i], predicted |-> avg]]

\* int(x) of a non-negative, non-NaN float
int(x) == x.num \div x.den

----------------------------------------------------------------------------
(* Streamlit: the memo and the widgets *)

\* pd.to_datetime on the date column, then dropna(subset=['date'])
parse_dates(file) ==
    [i \in 1..Len(file) |-> [file[i] EXCEPT !.date = to_datetime(file[i].date)]]

\* dropna forgotten: the coerced rows stay
dropna_none(frame) == frame

dropna(frame) == SelectSeq(frame, LAMBDA r : r.date # NaT)

\* load_data whose memo is a frame that a run changed in place: it has lost
\* its last row
load_data_shared(memo, file) ==
    IF memo.loaded THEN SubSeq(memo.data, 1, Len(memo.data) - 1)
    ELSE dropna(parse_dates(file))

\* load_data() under @st.cache_data: the body runs when nothing is memoized
load_data(memo, file) ==
    IF memo.loaded THEN memo.data ELSE dropna(parse_dates(file))

\* selectbox that keeps the value of the session whatever the options are
selectbox_sticky(options, widget) ==
    IF options = << >> THEN None
    ELSE IF widget.known THEN widget.value
    ELSE options[1]

\* st.selectbox(label, options) without a key: the widget is identified by its
\* label and options, so it keeps the value the session holds for the same
\* options and otherwise starts at index 0; None when there are no options
selectbox(options, widget) ==
    IF options = << >> THEN None
    ELSE IF widget.known /\ widget.options = options THEN widget.value
    ELSE options[1]

Range(list) == {list[i] : i \in 1..Len(list)}

----------------------------------------------------------------------------
(* The CSV files the model starts from *)

Row(s, d, dd, mm, a, b) ==
    [state |-> s, district |-> d, date |-> [dd |-> dd, mm |-> mm],
     demo_age_5_17 |-> a, demo_age_17_ |-> b]

\* rows of the short files: two states, a district name used in both states,
\* equal and different dates, equal totals, and two dates that do not exist
RowPalette ==
    { Row(1, 1, 31, 1, 2, 3), Row(1, 2, 1, 2, 4, 1), Row(1, 1, 1, 2, 1, 0),
      Row(2, 2, 31, 1, 0, 7), Row(2, 3, 30, 2, 5, 5), Row(1, 2, 31, 4, 3, 3) }

RECURSIVE SeqsUpTo(_, _)
SeqsUpTo(S, n) ==
    IF n = 0 THEN { << >> }
    ELSE LET shorter == SeqsUpTo(S, n - 1)
         IN  shorter \cup { Append(q, x) : q \in { t \in shorter : Len(t) = n - 1 }, x \in S }

SmallFiles == SeqsUpTo(RowPalette, MaxRows)

\* the k-th day of a run of consecutive days that starts on 27 January
SeriesDate(k) == IF k <= 5 THEN [dd |-> 26 + k, mm |-> 1] ELSE [dd |-> k - 5, mm |-> 2]

Layouts == {"daily", "split", "mixed", "twin"}

\* "daily": one district, consecutive days in file order, totals 10, 20, ...
\* "split": two districts by turns, every second day, latest day first
\* "mixed": a row of each district a day, followed by an unparseable row and
\*          a row of another state
\* "twin":  two states by turns, with the same district names in both
SeriesRow(i, n, layout) ==
    CASE layout = "daily" ->
            [state |-> 1, district |-> 1, date |-> SeriesDate(i),
             demo_age_5_17 |-> 4 * i, demo_age_17_ |-> 6 * i]
      [] layout = "split" ->
            [state |-> 1, district |-> 1 + ((n - i) % 2), date |-> SeriesDate(2 * (n + 1 - i)),
             demo_age_5_17 |-> n + 1 - i, demo_age_17_ |-> (i * i) % 5]
      [] layout = "mixed" ->
            [state |-> 1, district |-> 1 + (i % 2), date |-> SeriesDate((i + 1) \div 2),
             demo_age_5_17 |-> i % 3, demo_age_17_ |-> 7 - (i % 4)]
      [] OTHER ->
            [state |-> 1 + (i % 2), district |-> 1 + ((i \div 2) % 2), date |-> SeriesDate(i),
             demo_age_5_17 |-> i, demo_age_17_ |-> 1]

SeriesFile(n, layout) ==
    [i \in 1..n |-> SeriesRow(i, n, layout)]
        \o (IF layout = "mixed"
            THEN << Row(1, 2, 0, 1, 9, 9), Row(2, 2, 27, 1, 1, 1) >>
            ELSE << >>)

SeriesFiles == { SeriesFile(n, layout) : n \in 1..MaxDates, layout \in Layouts }

Files == SmallFiles \cup SeriesFiles

----------------------------------------------------------------------------
(* One run of the script, lines 26 to 226 *)

Levels == {"State", "District"}

\* The run with the memo, the widget state of the session and the values of
\* the radio and the slider as given.  Names bound after the line that raises
\* keep a placeholder (NaN, an empty frame, 0).
Run(memo, ws, wd, level, days) ==
    /\ df' = load_data(memo, csv)
    /\ cache' = [loaded |-> TRUE, data |-> df']
    /\ state_list' = sorted_unique(df', "state")
    /\ selected_state' = selectbox(state_list', ws)
    /\ w_state' = [known |-> TRUE, options |-> state_list', value |-> selected_state']
    /\ state_df' = Filter(df', "state", selected_state')
    /\ district_list' = sorted_unique(state_df', "district")
    /\ selected_district' = selectbox(district_list', wd)
    /\ w_district' = [known |-> TRUE, options |-> district_list',
                      value |-> selected_district']
    /\ district_df' = Filter(state_df', "district", selected_district')
    /\ total_5_17' = ColumnSum(state_df', "demo_age_5_17")
    /\ total_18_plus' = ColumnSum(state_df', "demo_age_17_")
    /\ total_all' = total_5_17' + total_18_plus'
    /\ \E grouped \in {groupby_sum(state_df', "district")} :
            district_group' = with_total(grouped)
    /\ fig_district' = sort_values(district_group', "total", FALSE)
    /\ d_5_17' = ColumnSum(district_df', "demo_age_5_17")
    /\ d_18_plus' = ColumnSum(district_df', "demo_age_17_")
    /\ time_df' = groupby_sum(district_df', "date")
    /\ forecast_level' = level
    /\ forecast_days' = days
    /\ \E grouped \in {groupby_sum(IF forecast_level' = "State"
                                   THEN state_df' ELSE district_df', "date")} :
       \E totalled \in {with_total(grouped)} :
            ts_df' = sort_values(totalled, "key", TRUE)
    /\ rolling_avg' = IF ts_df' = << >> THEN NaN ELSE rolling_mean_last(ts_df')
    /\ future_dates' = IF ts_df' = << >> THEN << >>
                       ELSE date_range(date_max(ts_df') + 1, forecast_days')
    /\ forecast_df' = IF ts_df' = << >> THEN << >>
                      ELSE forecast_frame(future_dates', rolling_avg', forecast_days')
    /\ exception' = IF ts_df' = << >> THEN "IndexError"
                    ELSE IF rolling_avg'.isnan THEN "ValueError"
                    ELSE "none"
    /\ info' = IF exception' = "none" THEN int(rolling_avg') ELSE 0
    /\ session' = "open"
    /\ UNCHANGED csv

----------------------------------------------------------------------------
(* The state machine *)

Init ==
    /\ csv \in Files
    /\ cache = NoCache
    /\ session = "closed"
    /\ w_state = NoWidget
    /\ w_district = NoWidget
    /\ df = << >>
    /\ state_list = << >>
    /\ district_list = << >>
    /\ district_group = << >>
    /\ future_dates = << >>
    /\ selected_state = None
    /\ selected_district = None
    /\ forecast_level = "State"
    /\ forecast_days = value
    /\ state_df = << >>
    /\ district_df = << >>
    /\ total_5_17 = 0
    /\ total_18_plus = 0
    /\ total_all = 0
    /\ fig_district = << >>
    /\ d_5_17 = 0
    /\ d_18_plus = 0
    /\ time_df = << >>
    /\ ts_df = << >>
    /\ rolling_avg = NaN
    /\ forecast_df = << >>
    /\ info = 0
    /\ exception = "none"

\* a browser opens the app: the script runs with every widget at its default
OpenSession ==
    /\ session = "closed"
    /\ Run(cache, NoWidget, NoWidget, "State", value)

\* the page is reloaded: a new session, the memo of the process is kept
Reload ==
    /\ session = "open"
    /\ Run(cache, NoWidget, NoWidget, "State", value)

\* the user picks another entry of the "Select State" dropdown
SelectState(s) ==
    /\ session = "open"
    /\ s \in Range(w_state.options)
    /\ s # w_state.value
    /\ Run(cache, [w_state EXCEPT !.value = s], w_district, forecast_level, forecast_days)

\* the user picks another entry of the "Select District" dropdown
SelectDistrict(d) ==
    /\ session = "open"
    /\ d \in Range(w_district.options)
    /\ d # w_district.value
    /\ Run(cache, w_state, [w_district EXCEPT !.value = d], forecast_level, forecast_days)

\* the user switches the "Select Forecast Level" radio
SelectLevel(level) ==
    /\ session = "open"
    /\ level # forecast_level
    /\ Run(cache, w_state, w_district, level, forecast_days)

\* the user moves the "Forecast Horizon (Days)" slider
SlideHorizon(days) ==
    /\ session = "open"
    /\ days # forecast_days
    /\ Run(cache, w_state, w_district, forecast_level, days)

Next ==
    \/ OpenSession
    \/ Reload
    \/ \E s \in 1..3 : SelectState(s)
    \/ \E d \in 1..3 : SelectDistrict(d)
    \/ \E level \in Levels : SelectLevel(level)
    \/ \E days \in min_value..max_value : SlideHorizon(days)

Spec == Init /\ [][Next]_vars

----------------------------------------------------------------------------
(* What the claims speak of, stated on the loaded dataset itself *)

\* the rows of the loaded dataset in the selected state, in the selected
\* district of that state, and in the subset the forecast level chooses
StateRows == {i \in 1..Len(df) : df[i].state = selected_state}
DistrictRows == {i \in StateRows : df[i].district = selected_district}
LevelRows == IF forecast_level = "State" THEN StateRows ELSE DistrictRows

\* the sum of a column of the loaded dataset over the rows I among the first n
RECURSIVE SumOver(_, _, _)
SumOver(I, col, n) ==
    IF n = 0 THEN 0
    ELSE (IF n \in I THEN df[n][col] ELSE 0) + SumOver(I, col, n - 1)

Sum5_17(I) == SumOver(I, "demo_age_5_17", Len(df))
Sum18Plus(I) == SumOver(I, "demo_age_17_", Len(df))
Mass(I) == Sum5_17(I) + Sum18Plus(I)

\* the sum of the Total column of an aggregated frame
RECURSIVE TotalTo(_, _)
TotalTo(frame, n) == IF n = 0 THEN 0 ELSE frame[n].total + TotalTo(frame, n - 1)

DatesOf(I) == {df[i].date : i \in I}
DistinctDates == DatesOf(LevelRows)

\* the latest `window` of the distinct dates of the chosen subset
LatestDates == {d \in DistinctDates : Cardinality({e \in DistinctDates : e > d}) < window}

----------------------------------------------------------------------------
(* C1: for a non-empty observed series and a horizon h in 3..30 the forecast
   has exactly h entries, dated last observed date + 1, + 2, ..., + h: all
   after the last observed date, consecutive, without gaps or duplicates. *)
C1_ForecastDates ==
    (session = "open" /\ DistinctDates # {}) =>
        /\ forecast_days \in 3..30
        /\ Len(forecast_df) = forecast_days
        /\ \A i \in 1..Len(forecast_df) :
              /\ \A d \in DistinctDates : d + i <= forecast_df[i].date
              /\ \E d \in DistinctDates : d + i = forecast_df[i].date

\* the longest horizon, from a series of several days that ends on 31 January
C1_Witness ==
    /\ session = "open"
    /\ forecast_days = 30
    /\ Len(forecast_df) = 30
    /\ Cardinality(DistinctDates) >= 2
    /\ forecast_df[1].date = 32

(* C2: the forecaster takes the mean of the trailing 7 observations of the
   daily totals (both counts summed per date, dates ascending) of the subset
   the forecast level chooses, and every projected entry carries that one
   value whatever the horizon; totals 10, 20, ..., 70 with horizon 3 give 40
   three times. *)
C2_TrailingMean ==
    (session = "open" /\ DistinctDates # {}) =>
        /\ \A i \in 1..Len(forecast_df) : forecast_df[i].predicted = rolling_avg
        /\ Cardinality(DistinctDates) >= 7 =>
              /\ ~rolling_avg.isnan
              /\ rolling_avg.den = 7
              /\ rolling_avg.num = Mass({i \in LevelRows : df[i].date \in LatestDates})
        /\ ([i \in 1..Len(ts_df) |-> ts_df[i].total] = <<10, 20, 30, 40, 50, 60, 70>>
                /\ forecast_days = 3) =>
              /\ [i \in 1..Len(forecast_df) |-> forecast_df[i].predicted.num]
                    = <<40 * 7, 40 * 7, 40 * 7>>
              /\ \A i \in 1..3 : forecast_df[i].predicted.den = 7
              /\ info = 40

\* the example: daily totals 10, 20, ..., 70 and horizon 3
C2_Witness ==
    /\ session = "open"
    /\ [i \in 1..Len(ts_df) |-> ts_df[i].total] = <<10, 20, 30, 40, 50, 60, 70>>
    /\ forecast_days = 3
    /\ Len(forecast_df) = 3
    /\ info = 40

(* C3: grouping preserves total mass: the per-district Totals of the selected
   state add up to the state total total_all, and the per-date totals of a
   subset add up to the total of that subset; no row is lost or counted
   twice. *)
C3_MassPreserved ==
    session = "open" =>
        /\ total_all = Mass(StateRows)
        /\ TotalTo(district_group, Len(district_group)) = total_all
        /\ TotalTo(fig_district, Len(fig_district)) = total_all
        /\ TotalTo(ts_df, Len(ts_df)) = Mass(LevelRows)
        /\ SumTo(time_df, "demo_age_5_17", Len(time_df))
             + SumTo(time_df, "demo_age_17_", Len(time_df)) = Mass(DistrictRows)

\* several districts, and a district of several rows
C3_Witness ==
    /\ session = "open"
    /\ Len(district_group) >= 2
    /\ Len(state_df) > Len(district_group)
    /\ Len(ts_df) < Cardinality(LevelRows)
    /\ total_all > 0

(* C4: the district-level subset is within the state-level subset, which is
   within the loaded dataset: every row of district_df has the selected state
   and district, and every row of the dataset with that state and district is
   in district_df. *)
C4_NestedSubsets ==
    session = "open" =>
        /\ \A i \in 1..Len(district_df) :
              /\ district_df[i].state = selected_state
              /\ district_df[i].district = selected_district
              /\ \E j \in 1..Len(state_df) : state_df[j] = district_df[i]
        /\ \A i \in 1..Len(state_df) :
              /\ state_df[i].state = selected_state
              /\ \E j \in 1..Len(df) : df[j] = state_df[i]
        /\ \A r \in {df[i] : i \in DistrictRows} :
              Cardinality({i \in 1..Len(district_df) : district_df[i] = r})
                 = Cardinality({i \in 1..Len(df) : df[i] = r})
        /\ \A r \in {df[i] : i \in StateRows} :
              Cardinality({i \in 1..Len(state_df) : state_df[i] = r})
                 = Cardinality({i \in 1..Len(df) : df[i] = r})
        /\ Len(district_df) = Cardinality(DistrictRows)
        /\ Len(state_df) = Cardinality(StateRows)

\* the selected district's name is also used in another state
C4_Witness ==
    /\ session = "open"
    /\ 0 < Len(district_df)
    /\ Len(district_df) < Len(state_df)
    /\ Len(state_df) < Len(df)
    /\ \E i \in 1..Len(df) :
          df[i].district = selected_district /\ df[i].state # selected_state

(* C5: each displayed age-group sum is the sum of its count column over
   exactly the rows of its subset, state-level and district-level, and the
   displayed total is the sum of the two age-group sums. *)
C5_AgeGroupSums ==
    session = "open" =>
        /\ total_5_17 = Sum5_17(StateRows)
        /\ total_18_plus = Sum18Plus(StateRows)
        /\ total_all = total_5_17 + total_18_plus
        /\ total_all = Mass(StateRows)
        /\ d_5_17 = Sum5_17(DistrictRows)
        /\ d_18_plus = Sum18Plus(DistrictRows)

\* a state of several rows of which the selected district holds only some
C5_Witness ==
    /\ session = "open"
    /\ Cardinality(StateRows) >= 2
    /\ Cardinality(DistrictRows) < Cardinality(StateRows)
    /\ 0 < d_5_17
    /\ d_5_17 < total_5_17
    /\ total_18_plus > 0

(* C6: loading drops exactly the records whose date is unparseable: every
   loaded record has a parsed date, and every record of the file with a
   parseable date is kept, in file order, with its other fields unchanged. *)
KeptRows == {i \in 1..Len(csv) : to_datetime(csv[i].date) # NaT}

C6_LoadDropsUnparseable ==
    session = "open" =>
        /\ Len(df) = Cardinality(KeptRows)
        /\ \A k \in 1..Len(df) : df[k].date # NaT
        /\ \A i \in KeptRows :
              \A k \in {Cardinality({j \in KeptRows : j <= i})} :
                 /\ k <= Len(df)
                 /\ df[k].date = to_datetime(csv[i].date)
                 /\ df[k].state = csv[i].state
                 /\ df[k].district = csv[i].district
                 /\ df[k].demo_age_5_17 = csv[i].demo_age_5_17
                 /\ df[k].demo_age_17_ = csv[i].demo_age_17_

\* an unparseable row ahead of a parseable one
C6_Witness ==
    /\ session = "open"
    /\ 0 < Len(df)
    /\ Len(df) < Len(csv)
    /\ \E i \in 1..Len(csv) : \E j \in 1..Len(csv) :
          i < j /\ i \notin KeptRows /\ j \in KeptRows

(* C7 as stated: after any selections the selected state is a state of the
   loaded dataset, the selected district is a district of a row of that
   state, and both subsets are non-empty. *)
StatesPresent == {df[i].state : i \in 1..Len(df)}
DistrictsOfState == {df[i].district : i \in StateRows}

C7_SelectionValid_Original ==
    session = "open" =>
        /\ selected_state \in StatesPresent
        /\ selected_district \in DistrictsOfState
        /\ state_df # << >>
        /\ district_df # << >>

(* C7 amended: whenever the loaded dataset has a record, the selected state
   is a state of the dataset, the selected district is a district of a row of
   that state and both subsets are non-empty, also right after a change of
   state; when the loaded dataset has no record, nothing is selected and both
   subsets are empty. *)
C7_SelectionValid ==
    session = "open" =>
        IF df # << >>
        THEN /\ selected_state \in StatesPresent
             /\ selected_district \in DistrictsOfState
             /\ state_df # << >>
             /\ district_df # << >>
        ELSE /\ selected_state = None
             /\ selected_district = None
             /\ state_df = << >>
             /\ district_df = << >>

\* the second state is selected and its district is none of the first state's
C7_Witness ==
    /\ session = "open"
    /\ Len(state_list) = 2
    /\ selected_state = state_list[2]
    /\ selected_district \in DistrictsOfState
    /\ \A i \in 1..Len(df) :
          df[i].state = state_list[1] => df[i].district # selected_district

(* C8: after any interactions the loaded dataset is unchanged, loaded once
   and never changed by filtering, aggregation or forecasting, and what is
   shown is what the current selections give on that dataset, whatever was
   selected before. *)
C8_Recomputed ==
    session = "open" =>
        /\ cache = [loaded |-> TRUE, data |-> df]
        /\ df = dropna(parse_dates(csv))
        /\ state_list = sorted_unique(df, "state")
        /\ w_state = [known |-> TRUE, options |-> state_list, value |-> selected_state]
        /\ state_df = Filter(df, "state", selected_state)
        /\ district_list = sorted_unique(state_df, "district")
        /\ w_district = [known |-> TRUE, options |-> district_list,
                         value |-> selected_district]
        /\ district_df = Filter(state_df, "district", selected_district)
        /\ total_5_17 = ColumnSum(state_df, "demo_age_5_17")
        /\ total_18_plus = ColumnSum(state_df, "demo_age_17_")
        /\ total_all = total_5_17 + total_18_plus
        /\ \A grouped \in {groupby_sum(state_df, "district")} :
              district_group = with_total(grouped)
        /\ fig_district = sort_values(district_group, "total", FALSE)
        /\ d_5_17 = ColumnSum(district_df, "demo_age_5_17")
        /\ d_18_plus = ColumnSum(district_df, "demo_age_17_")
        /\ time_df = groupby_sum(district_df, "date")
        /\ \A grouped \in {groupby_sum(IF forecast_level = "State"
                                       THEN state_df ELSE district_df, "date")} :
           \A totalled \in {with_total(grouped)} :
              ts_df = sort_values(totalled, "key", TRUE)
        /\ ts_df = << >> =>
              /\ exception = "IndexError"
              /\ forecast_df = << >>
        /\ ts_df # << >> =>
              /\ rolling_avg = rolling_mean_last(ts_df)
              /\ future_dates = date_range(date_max(ts_df) + 1, forecast_days)
              /\ forecast_df = forecast_frame(future_dates, rolling_avg, forecast_days)
              /\ exception = IF rolling_avg.isnan THEN "ValueError" ELSE "none"
        /\ exception = "none" => info = int(rolling_avg)

C8_DatasetKept ==
    session = "open" => (csv' = csv /\ df' = df /\ cache' = cache)

C8_FrameEffect == [][C8_DatasetKept]_vars /\ []C8_Recomputed

\* a session whose every selection has been changed, on a file with an
\* unparseable row
C8_Witness ==
    /\ session = "open"
    /\ Len(df) < Len(csv)
    /\ Len(state_list) >= 2
    /\ selected_state # state_list[1]
    /\ forecast_level = "District"
    /\ forecast_days # value
    /\ cache.loaded

(* C9: the district ranking lists every district of the selected state once,
   Totals non-increasing; every time series lists every distinct date of its
   subset once, dates strictly increasing, so the last observation is the one
   of the latest date. *)
C9_Ordering ==
    session = "open" =>
        /\ {fig_district[i].key : i \in 1..Len(fig_district)} = DistrictsOfState
        /\ Len(fig_district) = Cardinality(DistrictsOfState)
        /\ \A i \in 1..Len(fig_district) : \A j \in 1..Len(fig_district) :
              i < j => fig_district[i].total >= fig_district[j].total
        /\ {time_df[i].key : i \in 1..Len(time_df)} = DatesOf(DistrictRows)
        /\ \A i \in 1..Len(time_df) : \A j \in 1..Len(time_df) :
              i < j => time_df[i].key < time_df[j].key
        /\ {ts_df[i].key : i \in 1..Len(ts_df)} = DistinctDates
        /\ \A i \in 1..Len(ts_df) : \A j \in 1..Len(ts_df) :
              i < j => ts_df[i].key < ts_df[j].key
        /\ \A i \in 1..Len(ts_df) : ts_df[i].key <= ts_df[Len(ts_df)].key

\* the ranking differs from the order of the district names, and the file
\* lists its dates latest first
C9_Witness ==
    /\ session = "open"
    /\ Len(fig_district) >= 2
    /\ fig_district[1].key > fig_district[2].key
    /\ fig_district[1].total > fig_district[2].total
    /\ Len(ts_df) >= 3
    /\ df[1].date > df[2].date

(* C10 as stated: with fewer than 7 distinct dates the trailing mean is
   undefined, every projected entry carries the undefined value and the run
   ends in the error of converting it to an integer; with 7 or more the value
   is defined and the run completes. *)
C10_ShortSeries_Original ==
    session = "open" =>
        IF Cardinality(DistinctDates) < 7
        THEN /\ rolling_avg.isnan
             /\ Len(forecast_df) = forecast_days
             /\ \A i \in 1..Len(forecast_df) : forecast_df[i].predicted.isnan
             /\ exception = "ValueError"
        ELSE /\ ~rolling_avg.isnan
             /\ exception = "none"

(* C10 amended: with 1 to 6 distinct dates there is no partial-window mean:
   the trailing mean is undefined, every projected entry carries the
   undefined value and the run ends in the error of converting it to an
   integer; with no date at all the run ends earlier, in the error of taking
   the last entry of the empty rolling mean, and no forecast is built; with 7
   or more dates the value is defined and the run completes. *)
C10_ShortSeries ==
    session = "open" =>
        CASE Cardinality(DistinctDates) = 0 ->
                /\ exception = "IndexError"
                /\ forecast_df = << >>
          [] Cardinality(DistinctDates) \in 1..6 ->
                /\ rolling_avg.isnan
                /\ Len(forecast_df) = forecast_days
                /\ \A i \in 1..Len(forecast_df) : forecast_df[i].predicted.isnan
                /\ exception = "ValueError"
          [] OTHER ->
                /\ ~rolling_avg.isnan
                /\ \A i \in 1..Len(forecast_df) : ~forecast_df[i].predicted.isnan
                /\ exception = "none"
                /\ info * 7 <= rolling_avg.num
                /\ rolling_avg.num < (info + 1) * 7

\* six distinct dates: one short of the window
C10_Witness ==
    /\ session = "open"
    /\ Cardinality(DistinctDates) = 6
    /\ exception = "ValueError"
    /\ Len(forecast_df) = forecast_days
    /\ forecast_df[1].predicted.isnan

====
